---- MODULE Spec2Model ----
(***************************************************************************)
(* Native-object lifetime bridge of napi-rs                                *)
(* (crates/napi/src/bindgen_runtime/js_values/class.rs).                   *)
(*                                                                         *)
(* The state is the native heap (tagged boxes and native values), the      *)
(* host's objects with their attached native pointer, the process-wide     *)
(* REFERENCE_MAP, the shared finalize-callback holders, the host's         *)
(* reference handles and the thread-local ___CALL_FROM_FACTORY flag.       *)
(* Every public operation of the file is one action; the host's calls are  *)
(* inputs drawn from the statuses the host can report.                     *)
(***************************************************************************)
EXTENDS Integers, Sequences, FiniteSets, TLC

\* ---------------------------------------------------------------- bounds
MaxObjects == 1
MaxFinalizeCalls == 2
\* Objects of the specification of the finalize chain (SpecChain): an entry
\* is found under a box address only when a second object exists.
MaxChainObjects == 2
\* Exceptions delivered in SpecChain (the counter `thrown` is capped there).
MaxChainThrown == 1

\* Two allocations an object (its native value and its box).
ObjCount == IF MaxChainObjects > MaxObjects THEN MaxChainObjects ELSE MaxObjects
MaxAddr == 2 * ObjCount
Addr == 1..MaxAddr
Objs == 1..ObjCount
Null == 0

\* Native class types (T: ObjectFinalize) and the erased pointer type.
Types == {"A", "B"}
VoidPtr == "*mut c_void"
AllTags == Types \cup {VoidPtr}

\* Status codes the host reports (sys::Status) and their crate::Status kinds.
NapiOk == "napi_ok"
HostFailures == {"napi_invalid_arg", "napi_pending_exception"}
HostStatuses == {NapiOk} \cup HostFailures

VARIABLES
  heap,            \* Addr -> cell: free, a native value, or a TaggedObject box
  objState,        \* Objs -> "absent" | "live" | "collected"  (host objects)
  attached,        \* Objs -> Addr or Null: pointer given to napi_wrap
  madeBy,          \* Objs -> "none" | "factory" | "constructor"
  nativeType,      \* Objs -> T of the class the object was made for
  registry,        \* REFERENCE_MAP: Addr -> entry (key, ref_val, holder)
  holders,         \* Objs -> Rc<Cell<*mut dyn FnOnce()>> made for the object
  refState,        \* Objs -> napi_ref returned by napi_wrap
  references,      \* Objs -> whether an explicit Reference<T> is alive
  teardownRuns,    \* Objs -> number of ObjectFinalize::finalize calls
  closureRuns,     \* Objs -> number of calls of the holder's closure
  refDeletes,      \* Objs -> number of successful napi_delete_reference
  finalizeCalls,   \* Objs -> number of finalize callbacks the host made
  thrown,          \* number of exceptions delivered with throw_into
  callFromFactory, \* ___CALL_FROM_FACTORY
  handles,         \* ClassInstance values that exist
  aborted,         \* the process died in a panic / assertion
  debugBuild,      \* cfg(debug_assertions)
  last             \* the last operation: its inputs and what it returned

vars == <<heap, objState, attached, madeBy, nativeType, registry, holders,
          refState, references, teardownRuns, closureRuns, refDeletes, finalizeCalls,
          thrown, callFromFactory, handles, aborted, debugBuild, last>>

\* ------------------------------------------------------------ heap cells
FreeCell == [kind |-> "free", type_id |-> "none", object |-> Null]
NativeCell(T) == [kind |-> "native", type_id |-> T, object |-> Null]

\* TaggedObject::new(object): the type tag of the argument's static type and
\* Some(object).  object = Null stands for None.
TaggedObjectNew(tag, object) == [kind |-> "box", type_id |-> tag, object |-> object]

FreeAddrs == {a \in Addr : heap[a].kind = "free"}

\* The allocator: the lowest free address other than those in `taken`, in a
\* set of at most one element (empty when the heap is exhausted).  Freed
\* addresses are handed out again.
Alloc(taken) ==
  {a \in FreeAddrs \ taken : \A c \in FreeAddrs \ taken : a <= c}

\* What a read through a pointer sees: the box when it is live, any bytes
\* when the allocation was freed or reused for something else.
StaleCells == {TaggedObjectNew(t, ob) : t \in AllTags, ob \in {Null, 1}}
ReadCell(ptr) == IF heap[ptr].kind = "box" THEN {heap[ptr]} ELSE StaleCells

\* Whether the payload read through a pointer is Some.
PayloadRead(ptr) == {cell.object # Null : cell \in ReadCell(ptr)}

\* --------------------------------------------------------------- registry
NoEntry == [key |-> Null, ref |-> Null, holder |-> Null]
Entry(key, ref, holder) == [key |-> key, ref |-> ref, holder |-> holder]

NoHolder == [state |-> "none", strong |-> 0, closure |-> "none"]

\* A holder with two shares from the start.
NewHolderTwoShares == [state |-> "live", strong |-> 2, closure |-> "pending"]

\* Rc::into_raw(Rc::new(Cell::new(Box::into_raw(Box::new(|| {}))))): one
\* share, owned by the raw pointer; the closure has not run.
NewHolder == [state |-> "live", strong |-> 1, closure |-> "pending"]

\* ----------------------------------------------------------- status glue
\* Status::from(sys status)
StatusFrom(code) ==
  CASE code = "napi_invalid_arg" -> "InvalidArg"
    [] code = "napi_pending_exception" -> "PendingException"
    [] OTHER -> "Ok"

\* check_status!(code): Ok(()) on napi_ok, Err(Error::new(Status::from(code), ..))
CheckStatus(code) == IF code = NapiOk THEN "Ok" ELSE StatusFrom(code)

\* ------------------------------------------------------- operation record
NoOp == [op |-> "none", T |-> "none", obj |-> Null, arg |-> Null,
         status |-> "none", ok |-> FALSE, err |-> "none",
         value |-> Null, inner |-> Null, cell |-> FreeCell, log |-> <<>>,
         held |-> <<>>, count |-> 0, sd |-> "none"]

Init ==
  /\ heap = [a \in Addr |-> FreeCell]
  /\ objState = [o \in Objs |-> "absent"]
  /\ attached = [o \in Objs |-> Null]
  /\ madeBy = [o \in Objs |-> "none"]
  /\ nativeType = [o \in Objs |-> "none"]
  /\ registry = [a \in Addr |-> NoEntry]
  /\ holders = [o \in Objs |-> NoHolder]
  /\ refState = [o \in Objs |-> "none"]
  /\ references = [o \in Objs |-> FALSE]
  /\ teardownRuns = [o \in Objs |-> 0]
  /\ closureRuns = [o \in Objs |-> 0]
  /\ refDeletes = [o \in Objs |-> 0]
  /\ finalizeCalls = [o \in Objs |-> 0]
  /\ thrown = 0
  /\ callFromFactory = FALSE
  /\ handles = {}
  /\ aborted = FALSE
  /\ debugBuild \in BOOLEAN
  /\ last = NoOp

\* The host hands out its objects in order.
FreshObjs == {o \in Objs : objState[o] = "absent" /\ \A p \in Objs : p < o => objState[p] # "absent"}

\* ------------------------------------------------------------ new_instance
\* The pointer new_instance passes to napi_wrap: a freshly allocated box
\* around wrapped_value.
WrapData(wrapped_value, box) == box

\* The tag TaggedObject::new(wrapped_value) stores: wrapped_value is a
\* *mut c_void, whatever T new_instance was called for.
WrapTag(T) == VoidPtr

\* The key new_instance gives Reference::add_ref.
RegistryKey(wrapped_value, box) == wrapped_value

\* Reference::add_ref(env, key, value): insert, the last write wins.
AddRef(key, value) == [registry EXCEPT ![key] = value]

NewInstanceRecord(T, o, v, b, status, calls) ==
  [NoOp EXCEPT !.op = "new_instance", !.T = T, !.obj = o, !.arg = v,
               !.status = status, !.ok = (status = NapiOk),
               !.err = CheckStatus(status),
               !.value = IF status = NapiOk THEN o ELSE Null,
               !.inner = b, !.log = calls]

\* new_instance::<T>(env, wrapped_value, ctor_ref).  s1, s2, s3 are the
\* statuses of napi_get_reference_value, napi_new_instance and napi_wrap;
\* o is the object the host constructs and b the address the allocator
\* returns for the box.  wrapped_value (v) points at the caller's native
\* value; the heap records it once the wrapper is registered under it.
NewInstance(T, v, b, o, s1, s2, s3) ==
  /\ ~aborted
  /\ o \in FreshObjs
  /\ v \in Alloc({}) /\ b \in Alloc({v})
  /\ IF s1 # NapiOk THEN
       \* check_status!(napi_get_reference_value)?
       /\ last' = NewInstanceRecord(T, Null, v, Null, s1, <<"get_reference_value">>)
       /\ UNCHANGED <<heap, objState, attached, madeBy, nativeType, registry,
                      holders, refState, callFromFactory>>
     ELSE IF s2 # NapiOk THEN
       \* the flag was stored true; check_status!(napi_new_instance)? returns
       /\ callFromFactory' = TRUE
       /\ last' = NewInstanceRecord(T, Null, v, Null, s2,
                                    <<"get_reference_value", "new_instance">>)
       /\ UNCHANGED <<heap, objState, attached, madeBy, nativeType, registry,
                      holders, refState>>
     ELSE IF s3 # NapiOk THEN
       \* the holder and the box were allocated before napi_wrap was called
       /\ callFromFactory' = FALSE
       /\ objState' = [objState EXCEPT ![o] = "live"]
       /\ madeBy' = [madeBy EXCEPT ![o] = "factory"]
       /\ nativeType' = [nativeType EXCEPT ![o] = T]
       /\ holders' = [holders EXCEPT ![o] = NewHolder]
       /\ heap' = [heap EXCEPT ![b] = TaggedObjectNew(WrapTag(T), v)]
       /\ last' = NewInstanceRecord(T, o, v, b, s3,
                                    <<"get_reference_value", "new_instance", "wrap">>)
       /\ UNCHANGED <<attached, registry, refState>>
     ELSE
       /\ callFromFactory' = FALSE
       /\ objState' = [objState EXCEPT ![o] = "live"]
       /\ madeBy' = [madeBy EXCEPT ![o] = "factory"]
       /\ nativeType' = [nativeType EXCEPT ![o] = T]
       /\ holders' = [holders EXCEPT ![o] = NewHolder]
       /\ heap' = [heap EXCEPT ![b] = TaggedObjectNew(WrapTag(T), v),
                               ![v] = NativeCell(T)]
       /\ attached' = [attached EXCEPT ![o] = WrapData(v, b)]
       /\ refState' = [refState EXCEPT ![o] = "live"]
       /\ registry' = AddRef(RegistryKey(v, b), Entry(RegistryKey(v, b), o, o))
       /\ last' = NewInstanceRecord(T, o, v, b, NapiOk,
                                    <<"get_reference_value", "new_instance", "wrap", "add_ref">>)
  /\ UNCHANGED <<references, teardownRuns, closureRuns, refDeletes,
                 finalizeCalls, thrown, handles, debugBuild, aborted>>

\* ------------------------------------------------- boxes attached elsewhere
\* A wrapper whose box was attached outside this file (the class constructor
\* glue): a Type-Tagged Box<T> holding the native value in place.  A payload
\* held in place is written as the box's own address.
ConstructorAttach(T, b, o) ==
  /\ ~aborted
  /\ o \in FreshObjs
  /\ b \in Alloc({})
  /\ objState' = [objState EXCEPT ![o] = "live"]
  /\ madeBy' = [madeBy EXCEPT ![o] = "constructor"]
  /\ nativeType' = [nativeType EXCEPT ![o] = T]
  /\ heap' = [heap EXCEPT ![b] = TaggedObjectNew(T, b)]
  /\ attached' = [attached EXCEPT ![o] = b]
  /\ last' = [NoOp EXCEPT !.op = "constructor", !.T = T, !.obj = o, !.inner = b,
                          !.ok = TRUE]
  /\ UNCHANGED <<registry, holders, refState, references, teardownRuns, closureRuns,
                 refDeletes, finalizeCalls, thrown, callFromFactory, handles, aborted,
                 debugBuild>>

\* TaggedObject::take(): removes the payload of a live box, leaving None.
TakePayload(o) ==
  /\ ~aborted
  /\ objState[o] = "live"
  /\ attached[o] # Null
  /\ heap[attached[o]].kind = "box"
  /\ heap[attached[o]].object # Null
  /\ heap' = [heap EXCEPT ![attached[o]].object = Null]
  /\ last' = [NoOp EXCEPT !.op = "take", !.obj = o, !.inner = attached[o], !.ok = TRUE]
  /\ UNCHANGED <<objState, attached, madeBy, nativeType, registry, holders, refState,
                 references, teardownRuns, closureRuns, refDeletes, finalizeCalls, thrown,
                 callFromFactory, handles, aborted, debugBuild>>

\* --------------------------------------------------------- from_napi_value
\* napi_unwrap(env, napi_val, &mut ptr): napi_ok with the attached pointer, a
\* failure status otherwise (napi_invalid_arg when nothing is attached).
NapiUnwrapStatuses(val) ==
  IF attached[val] # Null THEN {NapiOk, "napi_pending_exception"} ELSE HostFailures

Ok(value, inner) == [ok |-> TRUE, err |-> "Ok", value |-> value, inner |-> inner]
Err(kind) == [ok |-> FALSE, err |-> kind, value |-> Null, inner |-> Null]

\* from_napi_value without the comparison of the stored tag with T's.
FromNapiValueNoTagCheck(T, napi_val, status, ptr, cell) ==
  IF CheckStatus(status) # "Ok" THEN Err(CheckStatus(status))
  ELSE IF cell.object # Null THEN Ok(napi_val, ptr) ELSE Err("InvalidArg")

\* from_napi_value reporting an emptied payload as a generic failure.
FromNapiValueEmptyGeneric(T, napi_val, status, ptr, cell) ==
  IF CheckStatus(status) # "Ok" THEN Err(CheckStatus(status))
  ELSE IF cell.type_id = T THEN
    IF cell.object # Null THEN Ok(napi_val, ptr) ELSE Err("GenericFailure")
  ELSE Err("InvalidArg")

\* <ClassInstance<T> as FromNapiValue>::from_napi_value(env, napi_val), given
\* the status of napi_unwrap, the pointer it stored and the cell read there.
\* The handle's inner points at the payload inside the box.
FromNapiValueResult(T, napi_val, status, ptr, cell) ==
  IF CheckStatus(status) # "Ok" THEN Err(CheckStatus(status))
  ELSE IF cell.type_id = T THEN
    IF cell.object # Null THEN Ok(napi_val, ptr) ELSE Err("InvalidArg")
  ELSE Err("InvalidArg")

Handle(T, value, inner) == [T |-> T, value |-> value, inner |-> inner]

FromNapiValue(T, napi_val, status, cell) ==
  /\ ~aborted
  /\ objState[napi_val] = "live"
  /\ status \in NapiUnwrapStatuses(napi_val)
  /\ LET ptr == IF status = NapiOk THEN attached[napi_val] ELSE Null
         res == FromNapiValueResult(T, napi_val, status, ptr, cell)
     IN /\ cell \in (IF ptr = Null THEN {FreeCell} ELSE ReadCell(ptr))
        /\ last' = [NoOp EXCEPT !.op = "from_napi_value", !.T = T, !.obj = napi_val,
                                !.arg = ptr, !.status = status, !.ok = res.ok,
                                !.err = res.err, !.value = res.value,
                                !.inner = res.inner, !.cell = cell]
        /\ handles' = IF res.ok THEN handles \cup {Handle(T, res.value, res.inner)}
                      ELSE handles
  /\ UNCHANGED <<heap, objState, attached, madeBy, nativeType, registry, holders,
                 refState, references, teardownRuns, closureRuns, refDeletes,
                 finalizeCalls, thrown, callFromFactory, aborted, debugBuild>>

\* ---------------------------------------------------------- assign_to_this
\* assign_to_this dropping the result of check_status! instead of returning it.
AssignToThisIgnoreStatus(self, nameOk, status) ==
  IF ~nameOk THEN Err("NulError") ELSE Ok(self.value, self.inner)

\* ClassInstance::assign_to_this(&self, name, this): CString::new(name)? fails
\* on an interior NUL, then check_status!(napi_set_named_property)?, then a
\* new ClassInstance with the fields of self.  "NulError" is the error the ?
\* converts the failed name conversion into.
AssignToThisResult(self, nameOk, status) ==
  IF ~nameOk THEN Err("NulError")
  ELSE IF CheckStatus(status) # "Ok" THEN Err(CheckStatus(status))
  ELSE Ok(self.value, self.inner)

\* ClassInstance::assign_to_this_with_attributes(&self, name, attributes, this):
\* Property::new(name)?, check_status!(napi_define_properties)?, then the same.
AssignToThisWithAttributesResult(self, nameOk, status) ==
  IF ~nameOk THEN Err("NulError")
  ELSE IF CheckStatus(status) # "Ok" THEN Err(CheckStatus(status))
  ELSE Ok(self.value, self.inner)

AssignRecord(op, self, this, status, res) ==
  [NoOp EXCEPT !.op = op, !.T = self.T, !.obj = self.value, !.arg = self.inner,
               !.status = status, !.ok = res.ok, !.err = res.err,
               !.value = res.value, !.inner = res.inner]

AssignToThis(self, this, nameOk, status) ==
  /\ ~aborted
  /\ self \in handles
  /\ objState[self.value] = "live"
  /\ objState[this] = "live"
  /\ LET res == AssignToThisResult(self, nameOk, status)
     IN /\ last' = AssignRecord("assign_to_this", self, this, status, res)
        /\ handles' = IF res.ok THEN handles \cup {Handle(self.T, res.value, res.inner)}
                      ELSE handles
  /\ UNCHANGED <<heap, objState, attached, madeBy, nativeType, registry, holders,
                 refState, references, teardownRuns, closureRuns, refDeletes,
                 finalizeCalls, thrown, callFromFactory, aborted, debugBuild>>

AssignToThisWithAttributes(self, this, nameOk, status) ==
  /\ ~aborted
  /\ self \in handles
  /\ objState[self.value] = "live"
  /\ objState[this] = "live"
  /\ LET res == AssignToThisWithAttributesResult(self, nameOk, status)
     IN /\ last' = AssignRecord("assign_to_this_with_attributes", self, this, status, res)
        /\ handles' = IF res.ok THEN handles \cup {Handle(self.T, res.value, res.inner)}
                      ELSE handles
  /\ UNCHANGED <<heap, objState, attached, madeBy, nativeType, registry, holders,
                 refState, references, teardownRuns, closureRuns, refDeletes,
                 finalizeCalls, thrown, callFromFactory, aborted, debugBuild>>

\* ------------------------------------------------- raw_finalize_unchecked
\* napi_delete_reference: napi_ok or a failure.
DeleteStatuses == {NapiOk, "napi_invalid_arg"}

\* The calls of the chain once an entry was taken: the closure, then the
\* release of the handle.
ChainCallsReleaseFirst == <<"delete_reference", "closure">>

\* Box::from_raw(finalize_callbacks_rc.get()) is called, then
\* napi_delete_reference(env, ref_val).
ChainCalls == <<"closure", "delete_reference">>

\* A borrow of REFERENCE_MAP kept until the end of the chain.
BorrowedThroughChain(call) == call \in {"remove", "closure", "delete_reference"}

\* Whether REFERENCE_MAP is borrowed while a call is made: borrow_mut takes
\* the closure |reference_map| reference_map.remove(&finalize_data) and the
\* borrow ends with it.
Borrowed(call) == call = "remove"

\* The release of the handle checked in every build.
DeleteAssertAlways(sd) == sd # NapiOk

\* debug_assert!(delete_reference_status == napi_ok): compiled only with
\* debug_assertions.
DeleteAssertFires(sd) == debugBuild /\ sd # NapiOk

\* assert!(rc_strong_count == 1 || rc_strong_count == 2) under
\* cfg(debug_assertions).
CountAssertFires(rc_strong_count) == debugBuild /\ rc_strong_count \notin {1, 2}

FinalizeRecord(o, b, res, log) ==
  [NoOp EXCEPT !.op = "finalize", !.T = nativeType[o], !.obj = o, !.arg = b,
               !.status = res, !.ok = (res = "Ok"), !.err = res, !.log = log,
               !.held = [i \in 1..Len(log) |-> Borrowed(log[i])]]

\* raw_finalize_unchecked::<T>(env, finalize_data, _) for the callback the
\* host makes for object o.  present is whether the payload read through
\* Box::from_raw(finalize_data) is Some (the tag is not read), res the
\* result of ObjectFinalize::finalize, sd the status of
\* napi_delete_reference.  variant is "code" for the function as written;
\* "no_return" goes on after throw_into, "absent_fails" treats a missing
\* entry as fatal.  The log lists the calls made, in order; count is the
\* strong count read from the holder and sd the status of the release.
RawFinalizeBody(o, present, res, sd, variant) ==
  LET finalize_data == attached[o]
      entry == registry[finalize_data]
      continues == ~(res = "Err" /\ variant # "no_return")
      found == continues /\ entry # NoEntry
      calls == IF res = "Err" THEN <<"teardown", "throw_into">> ELSE <<"teardown">>
      h == entry.holder
      strong == holders[h].strong
      countBad == CountAssertFires(strong)
      deleteBad == DeleteAssertFires(sd)
  IN
  /\ finalizeCalls' = [finalizeCalls EXCEPT ![o] = @ + 1]
  /\ objState' = [objState EXCEPT ![o] = "collected"]
  /\ handles' = {x \in handles : x.value # o}
  /\ UNCHANGED <<attached, madeBy, nativeType, references, callFromFactory, debugBuild>>
  /\ IF ~present THEN
       \* data.object.unwrap() panics on None
       /\ aborted' = TRUE
       /\ last' = FinalizeRecord(o, finalize_data, "Panic", <<"unwrap">>)
       /\ UNCHANGED <<heap, registry, holders, refState, teardownRuns, closureRuns,
                      refDeletes, thrown>>
     ELSE
       /\ teardownRuns' = [teardownRuns EXCEPT ![o] = @ + 1]
       \* data is dropped on every way out: the box is freed
       /\ heap' = [heap EXCEPT ![finalize_data] = FreeCell]
       /\ thrown' = IF res = "Err" THEN thrown + 1 ELSE thrown
       /\ IF ~found THEN
            /\ aborted' = (aborted \/ (continues /\ variant = "absent_fails"))
            /\ last' = FinalizeRecord(o, finalize_data, res,
                         IF continues THEN calls \o <<"remove">> ELSE calls)
            /\ UNCHANGED <<registry, holders, refState, closureRuns, refDeletes>>
          ELSE
            /\ registry' = [registry EXCEPT ![finalize_data] = NoEntry]
            /\ IF countBad THEN
                 \* assert!(rc_strong_count == 1 || rc_strong_count == 2)
                 /\ aborted' = TRUE
                 /\ last' = [FinalizeRecord(o, finalize_data, res,
                                            calls \o <<"remove", "assert">>)
                               EXCEPT !.count = strong]
                 /\ UNCHANGED <<holders, refState, closureRuns, refDeletes>>
               ELSE
                 /\ closureRuns' = [closureRuns EXCEPT ![h] = @ + 1]
                 /\ refState' = IF sd = NapiOk
                                THEN [refState EXCEPT ![entry.ref] = "deleted"]
                                ELSE refState
                 /\ refDeletes' = IF sd = NapiOk
                                  THEN [refDeletes EXCEPT ![entry.ref] = @ + 1]
                                  ELSE refDeletes
                 \* debug_assert!(delete_reference_status == napi_ok)
                 /\ aborted' = deleteBad
                 \* finalize_callbacks_rc is dropped unless the assertion fired
                 /\ holders' = IF deleteBad
                               THEN [holders EXCEPT ![h].closure = "ran"]
                               ELSE [holders EXCEPT ![h] =
                                       [state |-> IF strong = 1 THEN "freed" ELSE "live",
                                        strong |-> strong - 1, closure |-> "ran"]]
                 /\ last' = [FinalizeRecord(o, finalize_data, res,
                                            calls \o <<"remove">> \o ChainCalls)
                               EXCEPT !.count = strong, !.sd = sd]

\* raw_finalize_unchecked going on to the chain after throw_into.
RawFinalizeNoReturn(o, present, res, sd) == RawFinalizeBody(o, present, res, sd, "no_return")

\* raw_finalize_unchecked dying when the key has no entry.
RawFinalizeAbsentFails(o, present, res, sd) == RawFinalizeBody(o, present, res, sd, "absent_fails")

RawFinalizeUnchecked(o, present, res, sd) == RawFinalizeBody(o, present, res, sd, "code")

\* The callback as the host makes it.  When finalize_data no longer points
\* at a live box, Box::from_raw owns a freed (or reused) allocation: the
\* process may die in the allocator (crash), or run on whatever the read
\* yields.
FinalizeCallback(o, present, res, sd, crash) ==
  /\ present \in PayloadRead(attached[o])
  /\ IF crash /\ heap[attached[o]].kind # "box" THEN
       /\ aborted' = TRUE
       /\ finalizeCalls' = [finalizeCalls EXCEPT ![o] = @ + 1]
       /\ objState' = [objState EXCEPT ![o] = "collected"]
       /\ handles' = {x \in handles : x.value # o}
       /\ last' = FinalizeRecord(o, attached[o], "Crash", <<>>)
       /\ UNCHANGED <<heap, attached, madeBy, nativeType, registry, holders,
                      refState, references, teardownRuns, closureRuns, refDeletes,
                      thrown, callFromFactory, debugBuild>>
     ELSE RawFinalizeUnchecked(o, present, res, sd)

\* The host collects wrapper o and makes the finalize callback napi_wrap
\* registered, with the pointer napi_wrap was given.
HostFinalize(o, present, res, sd, crash) ==
  /\ ~aborted
  /\ objState[o] = "live"
  /\ attached[o] # Null
  /\ finalizeCalls[o] = 0
  /\ FinalizeCallback(o, present, res, sd, crash)

\* The host, against its contract, makes the callback again for the same
\* finalize_data.
HostFinalizeAgain(o, present, res, sd, crash) ==
  /\ ~aborted
  /\ objState[o] = "collected"
  /\ finalizeCalls[o] \in 1..(MaxFinalizeCalls - 1)
  /\ FinalizeCallback(o, present, res, sd, crash)

\* ------------------------------------------------------ explicit reference
\* An explicit native reference made for the native object of wrapper o: it
\* shares the holder of the registry entry, so the holder gains a share.
CreateReference(o) ==
  /\ ~aborted
  /\ objState[o] = "live"
  /\ ~references[o]
  /\ holders[o].state = "live"
  /\ \E a \in Addr : registry[a] # NoEntry /\ registry[a].holder = o
  /\ references' = [references EXCEPT ![o] = TRUE]
  /\ holders' = [holders EXCEPT ![o].strong = @ + 1]
  /\ last' = [NoOp EXCEPT !.op = "reference", !.ok = TRUE]
  /\ UNCHANGED <<heap, objState, attached, madeBy, nativeType, registry, refState,
                 teardownRuns, closureRuns, refDeletes, finalizeCalls, thrown,
                 callFromFactory, handles, aborted, debugBuild>>

\* The explicit reference is dropped: its share of the holder goes, and the
\* holder with the last share.
DropReference(o) ==
  /\ ~aborted
  /\ references[o]
  /\ references' = [references EXCEPT ![o] = FALSE]
  /\ holders' = [holders EXCEPT ![o] =
                   [@ EXCEPT !.strong = @ - 1,
                             !.state = IF holders[o].strong = 1 THEN "freed" ELSE "live"]]
  /\ last' = [NoOp EXCEPT !.op = "drop_reference", !.ok = TRUE]
  /\ UNCHANGED <<heap, objState, attached, madeBy, nativeType, registry, refState,
                 teardownRuns, closureRuns, refDeletes, finalizeCalls, thrown,
                 callFromFactory, handles, aborted, debugBuild>>

\* The inputs of the finalize callback that matter in the current state:
\* napi_delete_reference is called only for a registered key, and only a
\* dangling finalize_data can bring the allocator down.
Wrapped == {o \in Objs : attached[o] # Null}
DeleteChoices(o) == IF registry[attached[o]] = NoEntry THEN {NapiOk} ELSE DeleteStatuses
CrashChoices(o) == IF heap[attached[o]].kind = "box" THEN {FALSE} ELSE BOOLEAN

\* Whether the name converts, and the status of the property call (which is
\* not made when the name does not convert).
AssignInputs == {<<TRUE, st>> : st \in HostStatuses} \cup {<<FALSE, NapiOk>>}

\* Everything a read can yield in the current state.
Reads == StaleCells \cup {FreeCell} \cup {heap[a] : a \in Addr}


\* The statuses of the three host calls of new_instance: the calls after the
\* first failing one are not made.
FactoryStatuses ==
  {<<NapiOk, NapiOk, NapiOk>>}
    \cup {<<f, NapiOk, NapiOk>> : f \in HostFailures}
    \cup {<<NapiOk, f, NapiOk>> : f \in HostFailures}
    \cup {<<NapiOk, NapiOk, f>> : f \in HostFailures}

\* The objects the host may still hand out, at most n in all.
FreshUpTo(n) == {o \in FreshObjs : o <= n}
Referenced == {o \in Objs : references[o]}

Next ==
  \/ \E T \in Types, v \in Alloc({}), o \in FreshUpTo(MaxObjects), s \in FactoryStatuses :
       \E b \in Alloc({v}) : NewInstance(T, v, b, o, s[1], s[2], s[3])
  \/ \E T \in Types, b \in Alloc({}), o \in FreshUpTo(MaxObjects) : ConstructorAttach(T, b, o)
  \/ \E o \in Objs : TakePayload(o)
  \/ \E T \in Types, napi_val \in Objs, status \in HostStatuses, cell \in Reads :
       FromNapiValue(T, napi_val, status, cell)
  \/ \E self \in handles, this \in Objs, a \in AssignInputs :
       AssignToThis(self, this, a[1], a[2])
  \/ \E self \in handles, this \in Objs, a \in AssignInputs :
       AssignToThisWithAttributes(self, this, a[1], a[2])
  \/ \E o \in Wrapped, res \in {"Ok", "Err"} :
       \E present \in PayloadRead(attached[o]), sd \in DeleteChoices(o), crash \in CrashChoices(o) :
         HostFinalize(o, present, res, sd, crash)
  \/ \E o \in Wrapped, res \in {"Ok", "Err"} :
       \E present \in PayloadRead(attached[o]), sd \in DeleteChoices(o), crash \in CrashChoices(o) :
         HostFinalizeAgain(o, present, res, sd, crash)
  \/ \E o \in Objs : CreateReference(o)
  \/ \E o \in Referenced : DropReference(o)

Spec == Init /\ [][Next]_vars

\* The finalize chain by itself: wrappers new_instance made, explicit
\* references, and the host's finalize callbacks, for MaxChainObjects
\* wrappers.  raw_finalize_unchecked reads neither the tag nor T, so one
\* class is enough here, and a new_instance that fails leaves no entry.
ChainTypes == {"A"}
ChainStatuses == {<<NapiOk, NapiOk, NapiOk>>}
\* The results of the user teardown, failing while the cap allows it.
ChainResults == IF thrown < MaxChainThrown THEN {"Ok", "Err"} ELSE {"Ok"}

NextChain ==
  \/ \E T \in ChainTypes, v \in Alloc({}), o \in FreshUpTo(MaxChainObjects), s \in ChainStatuses :
       \E b \in Alloc({v}) : NewInstance(T, v, b, o, s[1], s[2], s[3])
  \/ \E o \in Wrapped, res \in ChainResults :
       \E present \in PayloadRead(attached[o]), sd \in DeleteChoices(o), crash \in CrashChoices(o) :
         HostFinalize(o, present, res, sd, crash)
  \/ \E o \in Wrapped, res \in ChainResults :
       \E present \in PayloadRead(attached[o]), sd \in DeleteChoices(o), crash \in CrashChoices(o) :
         HostFinalizeAgain(o, present, res, sd, crash)
  \/ \E o \in Objs : CreateReference(o)
  \/ \E o \in Referenced : DropReference(o)

SpecChain == Init /\ [][NextChain]_vars

\* ================================================================ claims
\* The box attached to the object of the last operation.
LastBox == heap[attached[last.obj]]
AssignOps == {"assign_to_this", "assign_to_this_with_attributes"}

\* C1: recovering a handle of type B from a wrapper whose attached box
\* carries the tag of another type A fails with InvalidArg and yields no
\* handle and no pointer into the box.
C1_TypeSafety ==
  (/\ last.op = "from_napi_value"
   /\ last.status = NapiOk
   /\ LastBox.kind = "box"
   /\ LastBox.type_id # last.T)
  => (/\ ~last.ok
      /\ last.err = "InvalidArg"
      /\ last.value = Null
      /\ last.inner = Null)

\* C1 witness: a box tagged with one class was asked for as the other class
\* and the recovery failed.
C1_Witness ==
  /\ last.op = "from_napi_value"
  /\ last.status = NapiOk
  /\ LastBox.kind = "box"
  /\ LastBox.type_id \in Types
  /\ last.T \in Types \ {LastBox.type_id}
  /\ LastBox.object # Null
  /\ last.err = "InvalidArg"

\* C2 (as stated): a wrapper new_instance::<T> made, not yet finalized and
\* with its payload in place, is recovered as T with a handle on its payload,
\* and is refused as any other type.
C2_RoundTrip ==
  (/\ last.op = "from_napi_value"
   /\ last.status = NapiOk
   /\ madeBy[last.obj] = "factory"
   /\ LastBox.kind = "box"
   /\ LastBox.object # Null)
  => IF last.T = nativeType[last.obj]
     THEN last.ok /\ last.inner = attached[last.obj]
     ELSE ~last.ok /\ last.err = "InvalidArg"

\* C3 (as stated): the user teardown and the chained closure run at most
\* once for every wrapper, also when the host makes the finalize callback
\* twice for the same finalize_data.
C3_SingleFinalization ==
  \A o \in Objs : teardownRuns[o] <= 1 /\ closureRuns[o] <= 1

\* C4 (as stated): once the finalization of a factory-made wrapper whose
\* teardown succeeded has completed, its closure has run exactly once, the
\* registry holds no entry for it and its reference was released once.
C4_EndState ==
  (/\ last.op = "finalize"
   /\ last.ok
   /\ madeBy[last.obj] = "factory"
   /\ finalizeCalls[last.obj] = 1)
  => (/\ closureRuns[last.obj] = 1
      /\ \A a \in Addr : registry[a].ref # last.obj
      /\ refDeletes[last.obj] = 1)

\* C5: a finalization whose user teardown returns an error delivers one host
\* exception and stops: it runs no closure, leaves the registry as it was
\* and releases no reference.
C5_TeardownFailureHalts ==
  [][(last'.op = "finalize" /\ last'.err = "Err")
       => (/\ thrown' = thrown + 1
           /\ last'.log = <<"teardown", "throw_into">>
           /\ registry' = registry
           /\ closureRuns' = closureRuns
           /\ holders' = holders
           /\ refDeletes' = refDeletes
           /\ refState' = refState)]_vars

\* C5 witness: the teardown of a factory-made wrapper failed, the exception
\* was delivered and the wrapper's entry is still registered.
C5_Witness ==
  /\ last.op = "finalize"
  /\ last.err = "Err"
  /\ madeBy[last.obj] = "factory"
  /\ thrown >= 1
  /\ \E a \in Addr : registry[a].ref = last.obj

\* The box of wrapper o has been freed by a finalization.
BoxFreed(o) == finalizeCalls[o] >= 1 /\ teardownRuns[o] >= 1

\* C6 (as stated): the registry never holds the entry of a wrapper whose
\* tagged box has been freed.
C6_NoDanglingKeys ==
  \A a \in Addr : registry[a] # NoEntry => ~BoxFreed(registry[a].ref)

\* Boxes no host object owns, and holders no registry entry owns.
OrphanBoxes ==
  {a \in Addr : heap[a].kind = "box"
                /\ \A o \in Objs : ~(objState[o] = "live" /\ attached[o] = a)}
OrphanHolders ==
  {h \in Objs : holders[h].state = "live" /\ \A a \in Addr : registry[a].holder # h}

\* C7 (as stated): when new_instance returns an error it has left no box or
\* holder without an owner and no registry entry for the attempt.
C7_FailureLeavesNothing ==
  (last.op = "new_instance" /\ ~last.ok)
  => (/\ OrphanBoxes = {}
      /\ OrphanHolders = {}
      /\ registry[last.arg] = NoEntry)

\* C8 (as stated): every registry entry is registered under the address of
\* the box given to napi_wrap for its wrapper, the pointer the host later
\* passes as finalize_data.
C8_KeySymmetry ==
  \A a \in Addr : registry[a] # NoEntry => registry[a].key = attached[registry[a].ref]

\* C9 (as stated): every failing recovery is an InvalidArg error, whatever
\* the host's unwrap call reported.
C9_AlwaysInvalidArg ==
  (last.op = "from_napi_value" /\ ~last.ok) => last.err = "InvalidArg"

\* C9 (amended): a recovery fails exactly when the host's unwrap call fails,
\* the tag differs or the payload is empty; it then yields no handle; the
\* error is InvalidArg for a differing tag and for an empty payload, and the
\* kind of the host's own status when the unwrap call failed.
C9_FailureKinds ==
  last.op = "from_napi_value"
  => /\ last.ok <=> (/\ last.status = NapiOk
                     /\ last.cell.type_id = last.T
                     /\ last.cell.object # Null)
     /\ ~last.ok => last.value = Null /\ last.inner = Null
     /\ (~last.ok /\ last.status = NapiOk) => last.err = "InvalidArg"
     /\ last.status # NapiOk => last.err = StatusFrom(last.status)
     /\ last.status = "napi_invalid_arg" => last.err = "InvalidArg"

\* C9 witness: the tag matched, the payload had been emptied, and the
\* recovery failed with InvalidArg.
C9_Witness ==
  /\ last.op = "from_napi_value"
  /\ last.status = NapiOk
  /\ LastBox.kind = "box"
  /\ LastBox.type_id = last.T
  /\ LastBox.object = Null
  /\ last.err = "InvalidArg"

\* C10: assign_to_this and assign_to_this_with_attributes return, when the
\* host call succeeds, a handle with the host value and the payload pointer
\* of the original; when it fails they return an error and no handle; the
\* original handle and the heap are unchanged either way.
C10_OwnershipExtension ==
  [][last'.op \in AssignOps
       => LET self == Handle(last'.T, last'.obj, last'.arg)
          IN /\ self \in handles /\ self \in handles'
             /\ heap' = heap
             /\ last'.ok => /\ last'.value = self.value
                            /\ last'.inner = self.inner
                            /\ handles' = handles \cup {Handle(self.T, last'.value, last'.inner)}
             /\ last'.status # NapiOk => ~last'.ok
             /\ ~last'.ok => /\ last'.value = Null /\ last'.inner = Null
                             /\ handles' = handles]_vars

\* C10 witness: assign_to_this_with_attributes returned a handle on the
\* live box of the original handle.
C10_Witness ==
  /\ last.op = "assign_to_this_with_attributes"
  /\ last.ok
  /\ last.inner = attached[last.obj]
  /\ heap[last.inner].kind = "box"

\* A finalization that took an entry out of the registry and went on with
\* its holder.
Reclaimed(r) ==
  /\ r.op = "finalize"
  /\ \E i \in 1..Len(r.log) : r.log[i] = "remove" /\ i < Len(r.log)

Pos(log, call) ==
  IF \E i \in 1..Len(log) : log[i] = call
  THEN CHOOSE i \in 1..Len(log) : log[i] = call /\ \A j \in 1..(i - 1) : log[j] # call
  ELSE 0

\* C12: within one finalization the user teardown is called before the
\* chained closure and the chained closure before the release of the
\* host's reference handle; no handle is released in a finalization in
\* which the closure did not run, and no closure runs in one in which the
\* teardown did not.
C12_StepOrder ==
  [][(finalizeCalls' # finalizeCalls)
       => LET log == last'.log
              t == Pos(log, "teardown")
              c == Pos(log, "closure")
              d == Pos(log, "delete_reference")
          IN /\ c # 0 => (t # 0 /\ t < c)
             /\ d # 0 => (c # 0 /\ c < d)
             /\ closureRuns' # closureRuns => (c # 0 /\ teardownRuns' # teardownRuns)
             /\ refDeletes' # refDeletes => (d # 0 /\ closureRuns' # closureRuns)]_vars

\* C12 witness: a finalization called the teardown, the closure and the
\* release, and the handle was released.
C12_Witness ==
  /\ last.op = "finalize"
  /\ Pos(last.log, "teardown") = 1
  /\ Pos(last.log, "closure") # 0
  /\ Pos(last.log, "delete_reference") = Len(last.log)
  /\ last.sd = NapiOk
  /\ \E o \in Objs : refDeletes[o] = 1 /\ closureRuns[o] = 1

\* The calls that leave raw_finalize_unchecked: user code and the host.
CallsOut == {"teardown", "throw_into", "closure", "delete_reference"}

C14_AbsentEntry ==
  [][(/\ finalizeCalls' # finalizeCalls
      /\ last'.err \notin {"Panic", "Crash"}
      /\ registry[last'.arg] = NoEntry)
       => /\ teardownRuns'[last'.obj] = teardownRuns[last'.obj] + 1
          /\ last'.ok => last'.log = <<"teardown", "remove">>
          /\ Pos(last'.log, "closure") = 0
          /\ Pos(last'.log, "delete_reference") = 0
          /\ closureRuns' = closureRuns
          /\ refDeletes' = refDeletes
          /\ refState' = refState
          /\ holders' = holders
          /\ registry' = registry
          /\ aborted' = aborted]_vars

\* C14 witness: a finalization found no entry under its key while another
\* key was registered; the teardown ran and the process went on.
C14_Witness ==
  /\ last.op = "finalize"
  /\ last.log = <<"teardown", "remove">>
  /\ teardownRuns[last.obj] = 1
  /\ ~aborted
  /\ registry[last.arg] = NoEntry
  /\ \E a \in Addr : registry[a] # NoEntry
  /\ \A o \in Objs : closureRuns[o] = 0 /\ refDeletes[o] = 0

\* C15: when napi_delete_reference fails during a finalization, a debug
\* build dies in the assertion and a release build completes the
\* finalization without reporting anything; in both builds the registry
\* entry has been removed and the chained closure has run exactly once.
C15_ReleaseFailure ==
  [][(/\ finalizeCalls' # finalizeCalls
      /\ last'.sd \notin {"none", NapiOk})
       => LET entry == registry[last'.arg]
              h == entry.holder
          IN /\ entry # NoEntry
             /\ registry'[last'.arg] = NoEntry
             /\ closureRuns[h] = 0 /\ closureRuns'[h] = 1
             /\ Pos(last'.log, "closure") # 0
             /\ Pos(last'.log, "closure") < Pos(last'.log, "delete_reference")
             /\ debugBuild => aborted'
             /\ ~debugBuild => /\ ~aborted'
                               /\ last'.ok
                               /\ thrown' = thrown
                               /\ refState' = refState
                               /\ refDeletes' = refDeletes]_vars

\* C15 witness: in a release build the release of the handle failed, the
\* finalization completed, the entry is gone and the closure has run once.
C15_Witness ==
  /\ last.op = "finalize"
  /\ last.sd = "napi_invalid_arg"
  /\ ~debugBuild
  /\ ~aborted
  /\ registry[last.arg] = NoEntry
  /\ \E o \in Objs : closureRuns[o] = 1 /\ refDeletes[o] = 0 /\ refState[o] = "live"

\* C16: ___CALL_FROM_FACTORY is true only while new_instance is inside
\* napi_new_instance: once new_instance has returned, with a value or with
\* an error of any of its three host calls, the flag is false.  (Every
\* state is one between calls.)
C16_FlagCallScoped ==
  ~callFromFactory

====
